---- MODULE Spec2Model ----
(***************************************************************************)
(* Model of the LiteWebAgent page-snapshot and save-to-file tools:         *)
(*   backend/api/litewebagent/tools/webscraping.py   (webscraping and the  *)
(*                                                    extraction helpers)  *)
(*   backend/api/litewebagent/tools/save_file.py     (async save_file)     *)
(*   litewebagent/webagent_utils_sync/tools/save_file.py (sync save_file)  *)
(* Texts are sequences of one-character strings, so that strip(), lower(), *)
(* startswith(), endswith() and substring tests are computed.              *)
(***************************************************************************)
EXTENDS Integers, Sequences, FiniteSets, TLC

(***************************************************************************)
(* Bounds of the model.                                                    *)
(***************************************************************************)
\* number of top-level tool calls in one behaviour
MaxCalls == 2

(***************************************************************************)
(* Text primitives (Python str methods).                                   *)
(***************************************************************************)
NL == "\n"

Whitespace == {" ", NL}

\* str.lower() on one character
LowerChar(c) ==
    CASE c = "A" -> "a"
      [] c = "B" -> "b"
      [] c = "C" -> "c"
      [] c = "F" -> "f"
      [] c = "H" -> "h"
      [] c = "M" -> "m"
      [] c = "X" -> "x"
      [] c = "Y" -> "y"
      [] OTHER -> c

\* str.lower()
Lower(s) == [i \in 1..Len(s) |-> LowerChar(s[i])]

\* str.startswith(prefix)
StartsWith(s, prefix) ==
    /\ Len(prefix) <= Len(s)
    /\ SubSeq(s, 1, Len(prefix)) = prefix

\* str.endswith(suffix)
EndsWith(s, suffix) ==
    /\ Len(suffix) <= Len(s)
    /\ SubSeq(s, Len(s) - Len(suffix) + 1, Len(s)) = suffix

\* the Python test `sub in s`
Contains(s, sub) ==
    \E i \in 0..(Len(s) - Len(sub)) : SubSeq(s, i + 1, i + Len(sub)) = sub

RECURSIVE FirstKept(_, _)
\* the first position from i on that holds no whitespace, Len(s) + 1 if none
FirstKept(s, i) ==
    IF i > Len(s) \/ s[i] \notin Whitespace THEN i ELSE FirstKept(s, i + 1)

RECURSIVE LastKept(_, _)
\* the last position up to i that holds no whitespace, 0 if none
LastKept(s, i) ==
    IF i < 1 \/ s[i] \notin Whitespace THEN i ELSE LastKept(s, i - 1)

\* str.strip(): drop leading and trailing whitespace
Strip(s) ==
    LET lo == FirstKept(s, 1) IN
    IF lo > Len(s) THEN <<>> ELSE SubSeq(s, lo, LastKept(s, Len(s)))


(***************************************************************************)
(* The browser page, as the collaborator calls of webscraping see it.      *)
(***************************************************************************)
TitleHome == <<"H", "o", "m", "e">>
TitleChallenge == <<"a", " ", "C", "l", "o", "u", "d", "f", "l", "a", "r", "e", "!">>

\* titles page.title() can answer with
Titles == {<<>>, TitleHome, TitleChallenge}

\* the literal 'cloudflare' of webscraping.py line 19
Cloudflare == <<"c", "l", "o", "u", "d", "f", "l", "a", "r", "e">>

\* the literal of webscraping.py line 49
TimeoutTitle ==
    <<"t", "i", "m", "e", "o", "u", "t", " ", "w", "a", "i", "t", "i", "n", "g",
      " ", "f", "o", "r", " ", "p", "a", "g", "e">>

\* the sentinel phrase of save_file.py line 68
MainContentNotFound ==
    <<"M", "a", "i", "n", " ", "c", "o", "n", "t", "e", "n", "t", " ", "n", "o",
      "t", " ", "f", "o", "u", "n", "d">>

PageUrl == "https://site.test/"

\* what the extraction helpers make of the markup of the current page
\* (webscraping.py lines 35-40): a blank page, a page with text, and a page
\* whose text is the sentinel phrase
PageViews ==
    { [main_content |-> <<>>, paragraphs |-> <<>>, headings |-> <<>>,
       meta_data |-> <<>>, internal_links |-> <<>>, formatted_content |-> <<>>],
      [main_content |-> <<>>, paragraphs |-> << <<"a", "b">> >>,
       headings |-> << <<"a">> >>, meta_data |-> <<>>,
       internal_links |-> <<"https://site.test/x">>,
       formatted_content |-> <<"a", " ", NL, "a", "b", " ", NL>>],
      [main_content |-> MainContentNotFound, paragraphs |-> <<>>,
       headings |-> <<>>, meta_data |-> <<>>, internal_links |-> <<>>,
       formatted_content |-> <<>>] }

\* Python None
None == [kind |-> "None"]

\* a Python str value
Str(s) == [kind |-> "str", s |-> s]

\* `v or ""` for v a str or None
OrEmpty(v) == IF v = None THEN <<>> ELSE v.s

\* the dict webscraping returns after an extraction (lines 32-43)
Snapshot(t, v) ==
    [kind |-> "dict", url |-> PageUrl, title |-> t,
     main_content |-> v.main_content, paragraphs |-> v.paragraphs,
     headings |-> v.headings, meta_data |-> v.meta_data,
     internal_links |-> v.internal_links,
     formatted_content |-> v.formatted_content]

\* the dict webscraping returns on PlaywrightTimeoutError (lines 47-56)
DegradedSnapshot ==
    [kind |-> "dict", url |-> PageUrl, title |-> TimeoutTitle,
     main_content |-> <<>>, paragraphs |-> <<>>, headings |-> <<>>,
     meta_data |-> <<>>, internal_links |-> <<>>, formatted_content |-> <<>>]

\* webscraping.py line 11
max_retries == 3

(***************************************************************************)
(* Markup trees (BeautifulSoup) and the extraction helpers.                *)
(* A tree is the sequence of its elements in document order; each element  *)
(* names its parent (0 for the top of the document) and carries its tag,   *)
(* its class, id, role and href attributes ("" or None when absent) and    *)
(* the text that precedes its children.                                    *)
(***************************************************************************)
\* number of elements of a markup tree
MaxNodes == 3

Tags == {"p", "ul", "li"}

Classes == {"", "ch2-dialog"}

NodeTexts == { <<>>, <<"b">>, <<" ", "B">>, <<"a", NL, "b">> }

RECURSIVE Ancestors(_, _)
\* tag.parents
Ancestors(tree, i) ==
    IF tree[i].parent = 0 THEN {}
    ELSE {tree[i].parent} \cup Ancestors(tree, tree[i].parent)

\* the numbering is the document order of a tree
WellFormed(tree) ==
    \A i \in 1..Len(tree) :
        /\ tree[i].parent < i
        /\ i > 1 => tree[i].parent \in ({0, i - 1} \cup Ancestors(tree, i - 1))

\* trees of text blocks
Soups ==
    UNION { { t \in [1..n -> [tag : Tags, class : Classes, id : {""}, role : {""},
                              href : {None}, text : NodeTexts,
                              parent : 0..(n - 1)]] : WellFormed(t) }
            : n \in 0..MaxNodes }

\* tag.children (elements only)
Children(tree, i) == {j \in 1..Len(tree) : tree[j].parent = i}

RECURSIVE TextFrom(_, _, _)
\* the texts of element i and of its descendants, from element j on
TextFrom(tree, i, j) ==
    IF j > Len(tree) \/ (j # i /\ i \notin Ancestors(tree, j)) THEN <<>>
    ELSE tree[j].text \o TextFrom(tree, i, j + 1)

\* tag.get_text()
GetText(tree, i) == TextFrom(tree, i, i)

\* webscraping.py line 133
tag_names == {"h1", "h2", "h3", "h4", "h5", "h6", "p", "ul", "ol"}

\* webscraping.py lines 134-136
ignore_classes == {"ch2-container", "ch2-theme-bar", "ch2-style-light",
                   "ch2-dialog", "ch2-dialog-bottom", "ch2-visible",
                   "ch2-settings", "ch2-settings-scan"}

\* webscraping.py lines 139-142: the element is a block to emit
IsLeafBlock(tree, i) ==
    /\ tree[i].tag \in tag_names
    /\ tree[i].class \notin ignore_classes
    /\ \A a \in Ancestors(tree, i) : tree[a].class \notin ignore_classes
    /\ \A c \in Children(tree, i) : tree[c].tag \notin tag_names

RECURSIVE FormatFrom(_, _, _, _)
\* the loop of webscraping.py lines 138-147 from element i on
FormatFrom(tree, i, unique_text, formatted_article) ==
    IF i > Len(tree) THEN formatted_article
    ELSE LET text == Strip(GetText(tree, i))
             lower_text == Lower(text)
         IN IF IsLeafBlock(tree, i) /\ text # <<>> /\ lower_text \notin unique_text
            THEN FormatFrom(tree, i + 1, unique_text \cup {lower_text},
                            formatted_article \o text \o <<" ", NL>>)
            ELSE FormatFrom(tree, i + 1, unique_text, formatted_article)

\* webscraping.py lines 130-149
get_formatted_content(tree) == FormatFrom(tree, 1, {}, <<>>)


(***************************************************************************)
(* get_internal_links (webscraping.py lines 115-127).                      *)
(***************************************************************************)
\* the URL of the page the links are taken from
HelperUrl == <<"h", "t", "t", "p", ":", "/", "/", "a", ".", "b", ":", "8", "/", "p">>

\* href attributes of the anchors: root-relative, scheme-relative, absolute
\* on the page's host, absolute on a host whose name begins with the page's
\* host, absolute on another host, relative
Hrefs == { <<"/", "x">>,
           <<"/", "/", "e", ".", "c", "/", "x">>,
           <<"h", "t", "t", "p", ":", "/", "/", "a", ".", "b", "/", "y">>,
           <<"h", "t", "t", "p", ":", "/", "/", "a", ".", "b", ".", "e", ".", "c", "/", "y">>,
           <<"h", "t", "t", "p", ":", "/", "/", "e", ".", "c", "/">>,
           <<"x">> }

\* trees of anchors
LinkSoups ==
    UNION { { t \in [1..n -> [tag : {"a", "p"}, class : {""}, id : {""}, role : {""},
                              href : {None} \cup {Str(h) : h \in Hrefs},
                              text : {<<>>}, parent : 0..(n - 1)]] : WellFormed(t) }
            : n \in 1..MaxNodes }

\* index of the first occurrence of sub in s from position i on, 0 when absent
RECURSIVE FindFrom(_, _, _)
FindFrom(s, sub, i) ==
    IF i + Len(sub) - 1 > Len(s) THEN 0
    ELSE IF SubSeq(s, i, i + Len(sub) - 1) = sub THEN i
    ELSE FindFrom(s, sub, i + 1)

SchemeSep == <<":", "/", "/">>

\* urlparse(url).scheme, for a URL of the form scheme://...
UrlScheme(url) ==
    LET k == FindFrom(url, SchemeSep, 1) IN
    IF k = 0 THEN <<>> ELSE SubSeq(url, 1, k - 1)

RECURSIVE HostEnd(_, _)
\* the last position of the host name that starts at position i
HostEnd(url, i) ==
    IF i > Len(url) \/ url[i] \in {"/", ":", "?", "#"} THEN i - 1
    ELSE HostEnd(url, i + 1)

\* urlparse(url).hostname, for a URL of the form scheme://host[:port][/...]
UrlHostname(url) ==
    LET k == FindFrom(url, SchemeSep, 1) IN
    IF k = 0 THEN <<>>
    ELSE Lower(SubSeq(url, k + 3, HostEnd(url, k + 3)))

\* urljoin(base_url, href) for a base without a path and an href that starts
\* with "/": a href that starts with "//" names its own host
UrlJoin(base_url, href) ==
    IF StartsWith(href, <<"/", "/">>) THEN UrlScheme(base_url) \o <<":">> \o href
    ELSE base_url \o href

RECURSIVE LinksFrom(_, _, _)
\* the loop of lines 119-125 from element i on
LinksFrom(tree, base_url, i) ==
    IF i > Len(tree) THEN <<>>
    ELSE LET rest == LinksFrom(tree, base_url, i + 1) IN
         IF tree[i].tag = "a" /\ tree[i].href # None
         THEN LET href == tree[i].href.s IN
              IF StartsWith(href, <<"/">>) THEN <<UrlJoin(base_url, href)>> \o rest
              ELSE IF StartsWith(href, base_url) THEN <<href>> \o rest
              ELSE rest
         ELSE rest

\* webscraping.py lines 115-127
get_internal_links(tree, url) ==
    LinksFrom(tree, UrlScheme(url) \o SchemeSep \o UrlHostname(url), 1)


(***************************************************************************)
(* get_main_content (webscraping.py lines 64-94) and the removal of the    *)
(* noise elements (lines 29-30).                                           *)
(***************************************************************************)
MaxMainNodes == 2

\* a text of n copies of the character c
Filler(c, n) == [k \in 1..n |-> c]

\* texts around the thresholds of get_main_content: none, 20 characters
\* after stripping, 21 and 101 characters
MainTexts == { <<>>, <<" ">> \o Filler("b", 20), Filler("a", 21), Filler("x", 101) }

\* a text that line 92 cuts
LongText == Filler("y", 2001)

Element(tag, id, class, role) == [tag |-> tag, id |-> id, class |-> class, role |-> role]

\* the kinds of element the selectors of get_main_content and of soup.select
\* (line 29) tell apart
MainElements == { Element("div", "main", "", ""), Element("div", "content", "", ""),
                  Element("div", "", "main-content", ""), Element("div", "", "main", ""),
                  Element("div", "", "", "main"), Element("main", "", "", ""),
                  Element("article", "", "", ""), Element("section", "", "", ""),
                  Element("header", "", "", ""), Element("div", "", "", ""),
                  Element("p", "", "", "") }

\* the element of kind el with text x under parent q
Region(el, x, q) ==
    [tag |-> el.tag, class |-> el.class, id |-> el.id, role |-> el.role,
     href |-> None, text |-> x, parent |-> q]

\* trees of content regions, and the single regions with a long text
MainSoups ==
    UNION { { t \in [1..n -> { Region(el, x, q)
                               : el \in MainElements, x \in MainTexts, q \in 0..(n - 1) }]
              : WellFormed(t) }
            : n \in 1..MaxMainNodes }
    \cup { <<Region(el, LongText, 0)>> : el \in MainElements }

RECURSIVE StrippedTextFrom(_, _, _)
\* the stripped texts of element i and of its descendants, from element j on
StrippedTextFrom(tree, i, j) ==
    IF j > Len(tree) \/ (j # i /\ i \notin Ancestors(tree, j)) THEN <<>>
    ELSE Strip(tree[j].text) \o StrippedTextFrom(tree, i, j + 1)

\* tag.get_text(strip=True)
GetTextStrip(tree, i) == StrippedTextFrom(tree, i, i)

\* webscraping.py lines 66-72
selectors == << [attr |-> "id", value |-> "main"],
                [attr |-> "id", value |-> "content"],
                [attr |-> "class", value |-> "main-content"],
                [attr |-> "class", value |-> "main"],
                [attr |-> "role", value |-> "main"] >>

\* the first of the elements found, in document order; 0 stands for None
First(found) ==
    IF found = {} THEN 0 ELSE CHOOSE i \in found : \A j \in found : i <= j

\* soup.find(**selector)
FindSelector(tree, selector) ==
    First({i \in 1..Len(tree) :
             CASE selector.attr = "id" -> tree[i].id = selector.value
               [] selector.attr = "class" -> tree[i].class = selector.value
               [] selector.attr = "role" -> tree[i].role = selector.value})

\* soup.find(name)
FindTag(tree, name) == First({i \in 1..Len(tree) : tree[i].tag = name})

RECURSIVE FallbackBlock(_, _)
\* webscraping.py lines 89-94 from element i on
FallbackBlock(tree, i) ==
    IF i > Len(tree) THEN <<>>
    ELSE LET text == GetTextStrip(tree, i) IN
         IF tree[i].tag \in {"main", "article", "section"} /\ Len(text) > 100
         THEN SubSeq(text, 1, IF Len(text) < 2000 THEN Len(text) ELSE 2000)
         ELSE FallbackBlock(tree, i + 1)

\* webscraping.py lines 81-94
MainOrArticle(tree) ==
    LET main_content == IF FindTag(tree, "main") # 0 THEN FindTag(tree, "main")
                        ELSE FindTag(tree, "article")
        text == GetTextStrip(tree, main_content)
    IN IF main_content # 0 /\ Len(text) > 20 THEN text
       ELSE FallbackBlock(tree, 1)

RECURSIVE TrySelectors(_, _)
\* webscraping.py lines 74-79 from selector k on
TrySelectors(tree, k) ==
    IF k > Len(selectors) THEN MainOrArticle(tree)
    ELSE LET main_content == FindSelector(tree, selectors[k])
             text == GetTextStrip(tree, main_content)
         IN IF main_content # 0 /\ Len(text) > 20 THEN text
            ELSE TrySelectors(tree, k + 1)

\* webscraping.py lines 64-94
get_main_content(tree) == TrySelectors(tree, 1)

\* soup.select('aside, header, nav, footer')
NoiseTags == {"aside", "header", "nav", "footer"}

\* the elements that element.decompose() leaves: those that are no noise
\* element and lie under none
Kept(tree) ==
    {i \in 1..Len(tree) : \A a \in {i} \cup Ancestors(tree, i) : tree[a].tag \notin NoiseTags}

\* webscraping.py lines 29-30: the tree without the noise elements
Decompose(tree) ==
    LET kept == Kept(tree)
        Index(j) == Cardinality({k \in kept : k <= j})
        Old(n) == CHOOSE j \in kept : Index(j) = n
    IN [n \in 1..Cardinality(kept) |->
            [tree[Old(n)] EXCEPT !.parent = IF @ = 0 THEN 0 ELSE Index(@)]]

NotRun == [fn |-> "none", value |-> <<>>]

(***************************************************************************)
(* State.                                                                  *)
(***************************************************************************)
VARIABLES
    op,            \* the tool call in progress: "idle", "webscraping",
                   \* "save_file" (async variant), "save_file_sync"
    pc,            \* position of the call in its code
    calls,         \* tool calls started so far
    attempt,       \* loop index of webscraping (0-based, as in the code)
    title,         \* webscraping local: the title read at line 18
    scrape,        \* how webscraping ended: pending / return value / raise
    events,        \* what the call in progress has done so far, in order
    content,       \* save_file argument
    file_path,     \* save_file argument
    append,        \* save_file argument
    context_text,  \* save_file local
    final_text,    \* save_file local
    request,       \* the messages save_file sent to the backend, or NoRequest
    result,        \* what the caller of the tool got back
    dirs,          \* filesystem: directories that exist
    files,         \* filesystem: path -> contents, or NoFile
    fs_before,     \* filesystem as it was when the call started
    appended,      \* history: per path, the texts appended to it since it was
                   \* absent, while nothing else wrote it
    soup,          \* a parsed markup tree handed to an extraction helper
    out            \* what the helper returned for it, or NotRun

vars == <<op, pc, calls, attempt, title, scrape, events, content, file_path, append,
          context_text, final_text, request, result, dirs, files, fs_before,
          appended, soup, out>>

program_vars == <<op, pc, calls, attempt, title, scrape, events, content, file_path,
                  append, context_text, final_text, request, result, dirs, files,
                  fs_before, appended>>

save_vars == <<content, file_path, append, context_text, final_text, request>>
fs_vars == <<dirs, files, appended>>

Pending == [kind |-> "pending"]
NoRequest == [kind |-> "none"]

\* str(e) of the exception the backend call raised
BackendError == <<"e">>
Returned(v) == [kind |-> "return", value |-> v]
Raised(e) == [kind |-> "raise", error |-> e]

Log(e) == events' = Append(events, e)

(***************************************************************************)
(* webscraping (webscraping.py lines 10-61).                               *)
(***************************************************************************)
InScrape == op \in {"webscraping", "save_file"}

\* the tool registry calls webscraping
CallWebscraping ==
    /\ pc \in {"idle", "done"}
    /\ calls < MaxCalls
    /\ op' = "webscraping"
    /\ calls' = calls + 1
    /\ pc' = "get_page"
    /\ attempt' = 0
    /\ title' = <<>>
    /\ scrape' = Pending
    /\ events' = <<>>
    /\ result' = Pending
    /\ fs_before' = <<dirs, files>>
    /\ content' = None
    /\ file_path' = ""
    /\ append' = FALSE
    /\ context_text' = None
    /\ final_text' = <<>>
    /\ request' = NoRequest
    /\ UNCHANGED <<fs_vars, soup, out>>

\* webscraping ends: with `return v` or with an exception leaving the function
ScrapeEnds(outcome) ==
    /\ scrape' = outcome
    /\ pc' = "scrape_end"

\* faulty variant: the last attempt's failure is swallowed and the call ends
\* without a value
HandleException_Swallows(e) ==
    IF attempt = max_retries - 1
    THEN ScrapeEnds(Returned(None))
    ELSE /\ pc' = "sleep_backoff"
         /\ scrape' = scrape

\* the `except Exception` handler, lines 57-61
HandleException(e) ==
    IF attempt = max_retries - 1
    THEN ScrapeEnds(Raised(e))
    ELSE /\ pc' = "sleep_backoff"
         /\ scrape' = scrape

\* line 12: page = await playwright_manager.get_page(), outside the try
GetPage ==
    /\ InScrape
    /\ pc = "get_page"
    /\ \E ok \in BOOLEAN :
         IF ok
         THEN /\ pc' = "wait_for_load_state"
              /\ scrape' = scrape
              /\ Log("get_page")
         ELSE /\ ScrapeEnds(Raised([what |-> "get_page", at |-> 0]))
              /\ Log("get_page_failed")
    /\ UNCHANGED <<op, calls, attempt, title, save_vars, result, fs_vars, fs_before, soup, out>>

\* faulty variant: a timeout is handled like any other failure and retried
WaitForLoadState_TimeoutRetried ==
    /\ InScrape
    /\ pc = "wait_for_load_state"
    /\ \E outcome \in {"idle", "timeout", "error"} :
         CASE outcome = "idle" ->
                /\ pc' = "title"
                /\ scrape' = scrape
                /\ Log("load")
           [] outcome = "timeout" ->
                /\ HandleException([what |-> "fail_load", at |-> attempt + 1])
                /\ events' = events \o <<"load", "timeout">>
           [] outcome = "error" ->
                /\ HandleException([what |-> "fail_load", at |-> attempt + 1])
                /\ events' = events \o <<"load", "fail_load">>
    /\ UNCHANGED <<op, calls, attempt, title, save_vars, result, fs_vars, fs_before, soup, out>>

\* line 16: await page.wait_for_load_state('networkidle', timeout=10000)
WaitForLoadState ==
    /\ InScrape
    /\ pc = "wait_for_load_state"
    /\ \E outcome \in {"idle", "timeout", "error"} :
         CASE outcome = "idle" ->
                /\ pc' = "title"
                /\ scrape' = scrape
                /\ Log("load")
           [] outcome = "timeout" ->
                \* lines 45-56
                /\ ScrapeEnds(Returned(DegradedSnapshot))
                /\ events' = events \o <<"load", "timeout">>
           [] outcome = "error" ->
                /\ HandleException([what |-> "fail_load", at |-> attempt + 1])
                /\ events' = events \o <<"load", "fail_load">>
    /\ UNCHANGED <<op, calls, attempt, title, save_vars, result, fs_vars, fs_before, soup, out>>

\* faulty variant: the title is tested without lower()
ReadTitle_CaseSensitive ==
    /\ InScrape
    /\ pc = "title"
    /\ \/ \E t \in Titles :
            /\ title' = t
            /\ IF Contains(t, Cloudflare)
               THEN /\ pc' = "sleep_challenge"
                    /\ Log("challenge")
               ELSE /\ pc' = "extract"
                    /\ Log("title_ok")
            /\ scrape' = scrape
       \/ /\ HandleException([what |-> "fail_title", at |-> attempt + 1])
          /\ Log("fail_title")
          /\ UNCHANGED title
    /\ UNCHANGED <<op, calls, attempt, save_vars, result, fs_vars, fs_before, soup, out>>

\* lines 18-22: read the title and test it for the challenge page
ReadTitle ==
    /\ InScrape
    /\ pc = "title"
    /\ \/ \E t \in Titles :
            /\ title' = t
            /\ IF Contains(Lower(t), Cloudflare)
               THEN /\ pc' = "sleep_challenge"
                    /\ Log("challenge")
               ELSE /\ pc' = "extract"
                    /\ Log("title_ok")
            /\ scrape' = scrape
       \/ /\ HandleException([what |-> "fail_title", at |-> attempt + 1])
          /\ Log("fail_title")
          /\ UNCHANGED title
    /\ UNCHANGED <<op, calls, attempt, save_vars, result, fs_vars, fs_before, soup, out>>

\* faulty variant: a challenge wait does not count as an attempt
SleepChallenge_NotCounted ==
    /\ InScrape
    /\ pc = "sleep_challenge"
    /\ Log("sleep5")
    /\ attempt' = attempt
    /\ pc' = "wait_for_load_state"
    /\ scrape' = scrape
    /\ UNCHANGED <<op, calls, title, save_vars, result, fs_vars, fs_before, soup, out>>

\* lines 21-22: await asyncio.sleep(5); continue
SleepChallenge ==
    /\ InScrape
    /\ pc = "sleep_challenge"
    /\ Log("sleep5")
    /\ IF attempt + 1 < max_retries
       THEN /\ attempt' = attempt + 1
            /\ pc' = "wait_for_load_state"
            /\ scrape' = scrape
       ELSE \* the for loop is exhausted and the function body ends
            /\ attempt' = attempt
            /\ ScrapeEnds(Returned(None))
    /\ UNCHANGED <<op, calls, title, save_vars, result, fs_vars, fs_before, soup, out>>

\* lines 24-43: url, markup, noise removal, second title read, extraction
Extract ==
    /\ InScrape
    /\ pc = "extract"
    /\ \/ \E t \in Titles, v \in PageViews :
            /\ ScrapeEnds(Returned(Snapshot(t, v)))
            /\ Log("extract")
       \/ /\ HandleException([what |-> "fail_extract", at |-> attempt + 1])
          /\ Log("fail_extract")
    /\ UNCHANGED <<op, calls, attempt, title, save_vars, result, fs_vars, fs_before, soup, out>>

\* line 61: await asyncio.sleep(random.uniform(1, 3)), then the next iteration
SleepBackoff ==
    /\ InScrape
    /\ pc = "sleep_backoff"
    /\ Log("backoff")
    /\ attempt' = attempt + 1
    /\ pc' = "wait_for_load_state"
    /\ UNCHANGED <<op, calls, title, scrape, save_vars, result, fs_vars, fs_before, soup, out>>

\* the webscraping tool call hands its outcome to its caller
WebscrapingReturns ==
    /\ op = "webscraping"
    /\ pc = "scrape_end"
    /\ result' = scrape
    /\ pc' = "done"
    \* the frame of webscraping is gone
    /\ attempt' = 0
    /\ title' = <<>>
    /\ UNCHANGED <<op, calls, scrape, events, save_vars, fs_vars, fs_before, soup, out>>

(***************************************************************************)
(* The filesystem and the paths save_file is called with.                  *)
(***************************************************************************)
NoFile == [kind |-> "absent"]
File(data) == [kind |-> "file", data |-> data]

\* save_file.py line 37 / line 105: the default target
DefaultPath == "log/agent_output.txt"

\* values of the file_path argument ("" selects the default)
FilePathArgs == {"", "out.csv"}

Paths == {DefaultPath, "out.csv"}

\* os.path.dirname on the paths of the model
Dirname(path) == IF path = DefaultPath THEN "log" ELSE ""

\* os.path.splitext(path)[1].lower() on the paths of the model
Extension(path) == IF path = "out.csv" THEN ".csv" ELSE ".txt"

\* lines 105-106: file_path or default, then os.path.expanduser (no "~" here)
TargetPath(fp) == IF fp = "" THEN DefaultPath ELSE fp

(***************************************************************************)
(* _format_scrape_result.                                                  *)
(***************************************************************************)
RECURSIVE Join(_, _)
\* sep.join(parts)
Join(sep, parts) ==
    IF parts = <<>> THEN <<>>
    ELSE IF Len(parts) = 1 THEN parts[1]
    ELSE parts[1] \o sep \o Join(sep, Tail(parts))

RECURSIVE StrippedNonEmpty(_)
\* [p.strip() for p in paragraphs if p.strip()]
StrippedNonEmpty(ps) ==
    IF ps = <<>> THEN <<>>
    ELSE (IF Strip(Head(ps)) = <<>> THEN <<>> ELSE <<Strip(Head(ps))>>)
         \o StrippedNonEmpty(Tail(ps))

StrNone == <<"N", "o", "n", "e">>
\* str(scrape_result) of a dict: its repr, never empty
StrDict == <<"{", "'", "u", "r", "l", "'", ":", " ", "'", "'", "}">>
LitTitle == <<"T", "i", "t", "l", "e", ":", " ">>
LitMain == <<NL, "M", "a", "i", "n", " ", "C", "o", "n", "t", "e", "n", "t", ":">>
LitFormatted == <<NL, "F", "o", "r", "m", "a", "t", "t", "e", "d", " ", "C", "o", "n", "t", "e", "n", "t", ":">>
LitParagraphs == <<NL, "P", "a", "r", "a", "g", "r", "a", "p", "h", "s", ":">>

\* backend save_file.py lines 7-32
Format_scrape_result(r) ==
    IF r.kind # "dict" THEN StrNone
    ELSE LET lines ==
                 (IF r.title # <<>> THEN <<LitTitle \o r.title>> ELSE <<>>)
              \o (IF r.main_content # <<>>
                  THEN <<LitMain, Strip(r.main_content)>> ELSE <<>>)
              \o (IF r.formatted_content # <<>>
                  THEN <<LitFormatted, Strip(r.formatted_content)>> ELSE <<>>)
              \o (IF r.paragraphs # <<>>
                  THEN <<LitParagraphs>> \o StrippedNonEmpty(r.paragraphs)
                  ELSE <<>>)
             joined == Join(<<NL>>, lines)
         IN IF joined # <<>> THEN joined ELSE StrDict

\* webagent_utils_sync save_file.py lines 7-23
Format_scrape_result_sync(r) ==
    IF r.kind # "dict" THEN StrNone
    ELSE LET parts ==
                 (IF r.title # <<>> THEN <<LitTitle \o r.title>> ELSE <<>>)
              \o (IF r.main_content # <<>>
                  THEN <<LitMain \o <<NL>> \o Strip(r.main_content)>> ELSE <<>>)
              \o (IF r.formatted_content # <<>>
                  THEN <<LitFormatted \o <<NL>> \o Strip(r.formatted_content)>>
                  ELSE <<>>)
              \o (IF r.paragraphs # <<>>
                  THEN <<LitParagraphs \o <<NL>>
                         \o Join(<<NL>>, StrippedNonEmpty(r.paragraphs))>>
                  ELSE <<>>)
             joined == Strip(Join(<<NL>>, parts))
         IN IF joined # <<>> THEN joined ELSE StrDict

(***************************************************************************)
(* The generative backend (litellm completion).                            *)
(***************************************************************************)
\* the literal of save_file.py line 162
FormattingFailed == <<"f", "o", "r", "m", "a", "t", "t", "i", "n", "g", " ", "f", "a", "i", "l", "e", "d">>

\* in-band failure answers of the backend
SoftTexts == { <<"F", "o", "r", "m", "a", "t", "t", "i", "n", "g", " ", "f", "a", "i", "l", "e", "d", ":", " ", "a">>,
               <<" ", "F", "O", "R", "M", "A", "T", "T", "I", "N", "G", " ", "F", "A", "I", "L", "E", "D", NL>> }

\* what resp.choices[0].message.content can be
RawTexts ==
    { <<>>, <<"a">>, <<"b">>, <<" ", "a", NL>>, <<"b", NL>>, <<NL>> } \cup SoftTexts

\* save_file.py line 110
max_context_chars == 8000
\* webagent_utils_sync save_file.py line 47
max_context_chars_sync == 6000

\* s[:n]
Truncate(s, n) == IF Len(s) <= n THEN s ELSE SubSeq(s, 1, n)

\* line 150 of save_file.py: the user turn when the context is empty
NoPageContent == [kind |-> "literal", s |-> "(No page content available - page may not have loaded)"]

\* save_file.py lines 118-134: the system message by extension, as the set
\* of the directions its sentences give
SystemMessage(extension) ==
    IF extension = ".csv"
    THEN {"data extractor", "valid CSV", "header row", "one row per page part",
          "no newlines in cells", "blank page: one descriptive row"}
    ELSE {"formatter", "no HTML/DOM noise", "clean, concise write-up",
          "blank page: say so"}

\* webagent_utils_sync save_file.py lines 55-75: style_hint inside the
\* formatter message
SystemMessageSync(extension) ==
    {"formatter", "no HTML/DOM noise"}
    \cup (IF extension = ".csv"
          THEN {"valid CSV", "header row", "no newlines in cells",
                "blank page: short note row"}
          ELSE {"clean, concise write-up", "blank page: say so"})

(***************************************************************************)
(* save_file.                                                              *)
(***************************************************************************)
\* values of the content argument: omitted, empty, a text
ContentArgs == {None, Str(<<>>), Str(<<"a">>)}

\* save_file.py lines 78-81
selectors_to_try == << [by |-> "tag", value |-> "main"],
                       [by |-> "tag", value |-> "article"],
                       [by |-> "role", value |-> "main"],
                       [by |-> "class", value |-> "content"],
                       [by |-> "class", value |-> "main-content"],
                       [by |-> "class*", value |-> "content"],
                       [by |-> "tag", value |-> "body"] >>

\* the classes of the pages below that have "content" as a substring
ClassesWithContent == {"content", "main-content", "page-content"}

\* soup.select(selector) / soup.find_all(selector) of lines 85-90: whether
\* the element is among the elements selected
Selects(selector, el) ==
    CASE selector.by = "tag" -> el.tag = selector.value
      [] selector.by = "role" -> el.role = selector.value
      [] selector.by = "class" -> el.class = selector.value
      [] selector.by = "class*" -> el.class \in ClassesWithContent

RECURSIVE FirstSubstantial(_, _, _)
\* save_file.py lines 92-96 from element i on: the first selected element
\* with more than 50 characters, cut to 2000
FirstSubstantial(tree, selector, i) ==
    IF i > Len(tree) THEN <<>>
    ELSE LET text == GetTextStrip(tree, i) IN
         IF Selects(selector, tree[i]) /\ Len(text) > 50
         THEN << SubSeq(text, 1, IF Len(text) < 2000 THEN Len(text) ELSE 2000) >>
         ELSE FirstSubstantial(tree, selector, i + 1)

RECURSIVE AdditionalText(_, _)
\* save_file.py lines 83-98 from selector k on: the list additional_text
AdditionalText(tree, k) ==
    IF k > Len(selectors_to_try) THEN <<>>
    ELSE LET found == FirstSubstantial(tree, selectors_to_try[k], 1) IN
         IF found # <<>> THEN found ELSE AdditionalText(tree, k + 1)

\* the body of a page
Body == Region(Element("body", "", "", ""), <<>>, 0)

\* a body with one region of n characters
Page1(e1, n1) == << Body, Region(e1, Filler("b", n1), 1) >>

\* a body with two regions of n1 and n2 characters
Page2(e1, n1, e2, n2) ==
    << Body, Region(e1, Filler("a", n1), 1), Region(e2, Filler("b", n2), 1) >>

\* the markup page.content() gives at line 72: pages without a text of more
\* than 50 characters, pages where only the body has one, pages where a
\* selector of higher priority matches later in the document, where the
\* first match of a selector is too short, and a <main> of 2001 characters
FallbackPages ==
    LET el_div == Element("div", "", "", "")
        el_main == Element("main", "", "", "")
        el_article == Element("article", "", "", "")
        el_role_main == Element("div", "", "", "main")
        el_content == Element("div", "", "content", "")
        el_main_content == Element("div", "", "main-content", "")
        el_page_content == Element("div", "", "page-content", "")
    IN { << Body >>,
         Page2(el_div, 25, el_div, 25),
         Page2(el_main, 25, el_article, 25),
         Page1(el_div, 51),
         Page2(el_article, 51, el_main, 51),
         Page2(el_role_main, 51, el_article, 51),
         Page2(el_content, 51, el_role_main, 51),
         Page2(el_main_content, 51, el_content, 51),
         Page2(el_page_content, 51, el_main_content, 51),
         Page2(el_div, 51, el_page_content, 51),
         Page2(el_main, 25, el_main, 51),
         Page2(el_main, 25, el_article, 51),
         << Body, Region(el_main, LongText, 1) >> }

\* save_file.py lines 83-98 for each of the pages
AdditionalTextOf == [tree \in FallbackPages |-> AdditionalText(tree, 1)]

ErrorResult(path, msg) ==
    Returned([status |-> "error", file_path |-> path, message |-> msg])

SuccessResult(path) == Returned([status |-> "success", file_path |-> path])

\* faulty variant: an empty content is treated like an omitted one
CallSaveFile_ScrapesOnEmpty ==
    /\ pc \in {"idle", "done"}
    /\ calls < MaxCalls
    /\ calls' = calls + 1
    /\ \E variant \in {"save_file", "save_file_sync"}, c \in ContentArgs,
          fp \in FilePathArgs, ap \in BOOLEAN :
         /\ op' = variant
         /\ content' = c
         /\ file_path' = fp
         /\ append' = ap
         \* line 54 / line 33: context_text = content
         /\ context_text' = c
         /\ pc' = IF OrEmpty(c) # <<>> THEN "complete"
                  ELSE IF variant = "save_file" THEN "get_page" ELSE "scrape_sync"
    /\ attempt' = 0
    /\ title' = <<>>
    /\ scrape' = Pending
    /\ events' = <<>>
    /\ final_text' = <<>>
    /\ request' = NoRequest
    /\ result' = Pending
    /\ fs_before' = <<dirs, files>>
    /\ UNCHANGED <<fs_vars, soup, out>>

\* the tool registry calls one of the two save_file tools
CallSaveFile ==
    /\ pc \in {"idle", "done"}
    /\ calls < MaxCalls
    /\ calls' = calls + 1
    /\ \E variant \in {"save_file", "save_file_sync"}, c \in ContentArgs,
          fp \in FilePathArgs, ap \in BOOLEAN :
         /\ op' = variant
         /\ content' = c
         /\ file_path' = fp
         /\ append' = ap
         \* line 54 / line 33: context_text = content
         /\ context_text' = c
         /\ pc' = IF c # None THEN "complete"
                  ELSE IF variant = "save_file" THEN "get_page" ELSE "scrape_sync"
    /\ attempt' = 0
    /\ title' = <<>>
    /\ scrape' = Pending
    /\ events' = <<>>
    /\ final_text' = <<>>
    /\ request' = NoRequest
    /\ result' = Pending
    /\ fs_before' = <<dirs, files>>
    /\ UNCHANGED <<fs_vars, soup, out>>

\* save_file.py lines 56-68: the scrape has ended; format it and decide on
\* the fallback re-query
AfterScrape ==
    /\ op = "save_file"
    /\ pc = "scrape_end"
    /\ IF scrape.kind = "raise"
       THEN \* the call at line 56 is outside every try
            /\ result' = scrape
            /\ pc' = "done"
            /\ events' = <<"scrape_raised">>
            /\ UNCHANGED context_text
       ELSE LET text == Format_scrape_result(scrape.value) IN
            /\ context_text' = Str(text)
            /\ pc' = IF text = <<>> \/ Contains(text, MainContentNotFound)
                     THEN "fallback" ELSE "complete"
            /\ events' = <<"scrape">>
            /\ UNCHANGED result
    \* the frame of webscraping is gone
    /\ attempt' = 0
    /\ title' = <<>>
    /\ UNCHANGED <<op, calls, scrape, content, file_path, append,
                   final_text, request, fs_vars, fs_before, soup, out>>

\* faulty variant: a failure of the re-query empties the context
Fallback_FailureClearsContext ==
    /\ op = "save_file"
    /\ pc = "fallback"
    /\ \/ /\ Log("fallback_failed")
          /\ context_text' = Str(<<>>)
          /\ UNCHANGED soup
       \/ \E tree \in FallbackPages :
            LET additional_text == AdditionalTextOf[tree] IN
            /\ soup' = tree
            /\ context_text' = IF additional_text # <<>>
                               THEN Str(Join(<<NL>>, additional_text))
                               ELSE context_text
            /\ Log("fallback")
    /\ pc' = "complete"
    /\ UNCHANGED <<op, calls, attempt, title, scrape, content, file_path, append,
                   final_text, request, result, fs_vars, fs_before, out>>

\* save_file.py lines 69-103: best-effort re-query of the live markup
Fallback ==
    /\ op = "save_file"
    /\ pc = "fallback"
    /\ \/ \* get_page, page.content() or the parsing raises: except ... pass
          /\ Log("fallback_failed")
          /\ UNCHANGED <<context_text, soup>>
       \/ \E tree \in FallbackPages :
            LET additional_text == AdditionalTextOf[tree] IN
            /\ soup' = tree
            /\ context_text' = IF additional_text # <<>>
                               THEN Str(Join(<<NL>>, additional_text))
                               ELSE context_text
            /\ Log("fallback")
    /\ pc' = "complete"
    /\ UNCHANGED <<op, calls, attempt, title, scrape, content, file_path, append,
                   final_text, request, result, fs_vars, fs_before, out>>

\* webagent_utils_sync save_file.py lines 35-41: the scrape of the sync
\* variant; its webscraping either returns a value or raises
ScrapeSync ==
    /\ op = "save_file_sync"
    /\ pc = "scrape_sync"
    /\ \/ \E v \in {None, DegradedSnapshot} \cup {Snapshot(TitleHome, w) : w \in PageViews} :
            /\ context_text' = Str(Format_scrape_result_sync(v))
            /\ scrape' = Returned(v)
            /\ pc' = "complete"
            /\ UNCHANGED result
       \/ /\ scrape' = Raised([what |-> "scrape", at |-> 0])
          /\ result' = scrape'
          /\ pc' = "done"
          /\ UNCHANGED context_text
    /\ Log("scrape")
    /\ UNCHANGED <<op, calls, attempt, title, content, file_path, append, final_text,
                   request, fs_vars, fs_before, soup, out>>

\* faulty variant: without page content the prose guidance is sent whatever
\* the extension
Complete_GuidanceByContext ==
    /\ op = "save_file"
    /\ pc = "complete"
    /\ LET target_path == TargetPath(file_path)
           trimmed_context == Truncate(OrEmpty(context_text),
                                       max_context_chars)
       IN /\ request' = [system |-> IF trimmed_context # <<>>
                                    THEN SystemMessage(Extension(target_path))
                                    ELSE SystemMessage(""),
                         user |-> IF trimmed_context # <<>> THEN Str(trimmed_context)
                                  ELSE NoPageContent,
                         max_tokens |-> 1200]
          /\ \/ \* completion raises (line 157)
                /\ result' = ErrorResult(target_path, <<"formatting_failed: ", BackendError>>)
                /\ pc' = "done"
                /\ Log("complete_failed")
                /\ UNCHANGED final_text
             \/ \E raw \in RawTexts :
                  LET text == Strip(raw) IN
                  /\ final_text' = text
                  /\ Log("complete")
                  /\ IF StartsWith(Lower(text), FormattingFailed)
                     THEN /\ result' = ErrorResult(target_path, <<"", text>>)
                          /\ pc' = "done"
                     ELSE /\ pc' = "makedirs"
                          /\ UNCHANGED result
    \* the locals of the fallback are gone
    /\ soup' = <<>>
    /\ UNCHANGED <<op, calls, attempt, title, scrape, content, file_path, append,
                   context_text, fs_vars, fs_before, out>>

\* save_file.py lines 105-163: build the request, call the backend, check the answer
Complete ==
    /\ op = "save_file"
    /\ pc = "complete"
    /\ LET target_path == TargetPath(file_path)
           trimmed_context == Truncate(OrEmpty(context_text),
                                       max_context_chars)
       IN /\ request' = [system |-> SystemMessage(Extension(target_path)),
                         user |-> IF trimmed_context # <<>> THEN Str(trimmed_context)
                                  ELSE NoPageContent,
                         max_tokens |-> 1200]
          /\ \/ \* completion raises (line 157)
                /\ result' = ErrorResult(target_path, <<"formatting_failed: ", BackendError>>)
                /\ pc' = "done"
                /\ Log("complete_failed")
                /\ UNCHANGED final_text
             \/ \E raw \in RawTexts :
                  LET text == Strip(raw) IN
                  /\ final_text' = text
                  /\ Log("complete")
                  /\ IF StartsWith(Lower(text), FormattingFailed)
                     THEN /\ result' = ErrorResult(target_path, <<"", text>>)
                          /\ pc' = "done"
                     ELSE /\ pc' = "makedirs"
                          /\ UNCHANGED result
    \* the locals of the fallback are gone
    /\ soup' = <<>>
    /\ UNCHANGED <<op, calls, attempt, title, scrape, content, file_path, append,
                   context_text, fs_vars, fs_before, out>>

\* faulty variant: after a backend failure the unformatted context is written
CompleteSync_WritesContext ==
    /\ op = "save_file_sync"
    /\ pc = "complete"
    /\ LET target_path == TargetPath(file_path)
           trimmed_context == Truncate(OrEmpty(context_text),
                                       max_context_chars_sync)
       IN /\ request' = [system |-> SystemMessageSync(Extension(target_path)),
                         user |-> Str(trimmed_context),
                         max_tokens |-> 800]
          /\ \/ \* completion raises (line 85)
                /\ final_text' = OrEmpty(context_text)
                /\ pc' = "makedirs"
                /\ Log("complete_failed")
                /\ UNCHANGED result
             \/ \E raw \in RawTexts :
                  /\ final_text' = Strip(raw)
                  /\ pc' = "makedirs"
                  /\ Log("complete")
                  /\ UNCHANGED result
    /\ UNCHANGED <<op, calls, attempt, title, scrape, content, file_path, append,
                   context_text, fs_vars, fs_before, soup, out>>

\* webagent_utils_sync save_file.py lines 43-86
CompleteSync ==
    /\ op = "save_file_sync"
    /\ pc = "complete"
    /\ LET target_path == TargetPath(file_path)
           trimmed_context == Truncate(OrEmpty(context_text),
                                       max_context_chars_sync)
       IN /\ request' = [system |-> SystemMessageSync(Extension(target_path)),
                         user |-> Str(trimmed_context),
                         max_tokens |-> 800]
          /\ \/ \* completion raises (line 85)
                /\ result' = ErrorResult(target_path, <<"formatting_failed: ", BackendError>>)
                /\ pc' = "done"
                /\ Log("complete_failed")
                /\ UNCHANGED final_text
             \/ \E raw \in RawTexts :
                  /\ final_text' = Strip(raw)
                  /\ pc' = "makedirs"
                  /\ Log("complete")
                  /\ UNCHANGED result
    /\ UNCHANGED <<op, calls, attempt, title, scrape, content, file_path, append,
                   context_text, fs_vars, fs_before, soup, out>>

InSave == op \in {"save_file", "save_file_sync"}

\* save_file.py lines 165-167 (sync variant lines 89-91):
\* os.makedirs(directory, exist_ok=True) when the path has a directory part
Makedirs ==
    /\ InSave
    /\ pc = "makedirs"
    /\ LET directory == Dirname(TargetPath(file_path)) IN
       IF directory = ""
       THEN /\ pc' = "open"
            /\ UNCHANGED <<dirs, result, events>>
       ELSE \/ /\ dirs' = dirs \cup {directory}
               /\ pc' = "open"
               /\ Log("makedirs")
               /\ UNCHANGED result
            \/ \* OSError leaves save_file
               /\ result' = Raised([what |-> "makedirs", at |-> 0])
               /\ pc' = "done"
               /\ Log("makedirs_failed")
               /\ UNCHANGED dirs
    /\ UNCHANGED <<op, calls, attempt, title, scrape, save_vars, files, appended, fs_before, soup, out>>

\* faulty variant: when the file cannot be opened the first time, the text
\* is generated again
OpenFile_Regenerates ==
    /\ InSave
    /\ pc = "open"
    /\ LET target_path == TargetPath(file_path)
           mode == IF append THEN "a" ELSE "w"
       IN \/ /\ files' = [files EXCEPT ![target_path] =
                            IF mode = "a" /\ files[target_path] # NoFile
                            THEN files[target_path] ELSE File(<<>>)]
             /\ pc' = "write"
             /\ Log("open")
             /\ UNCHANGED result
             /\ appended' = [appended EXCEPT ![target_path] =
                               IF mode = "a" THEN @
                               ELSE [tracked |-> FALSE, texts |-> <<>>]]
          \/ /\ IF \A k \in 1..Len(events) : events[k] # "open_failed"
                THEN /\ pc' = "complete"
                     /\ UNCHANGED result
                ELSE /\ result' = Raised([what |-> "open", at |-> 0])
                     /\ pc' = "done"
             /\ Log("open_failed")
             /\ UNCHANGED <<files, appended>>
    /\ UNCHANGED <<op, calls, attempt, title, scrape, save_vars, dirs, fs_before, soup, out>>

\* save_file.py lines 168-169 (sync 92-93): open(target_path, mode)
OpenFile ==
    /\ InSave
    /\ pc = "open"
    /\ LET target_path == TargetPath(file_path)
           mode == IF append THEN "a" ELSE "w"
       IN \/ /\ files' = [files EXCEPT ![target_path] =
                            IF mode = "a" /\ files[target_path] # NoFile
                            THEN files[target_path] ELSE File(<<>>)]
             /\ pc' = "write"
             /\ Log("open")
             /\ UNCHANGED result
             /\ appended' = [appended EXCEPT ![target_path] =
                               IF mode = "a" THEN @
                               ELSE [tracked |-> FALSE, texts |-> <<>>]]
          \/ \* OSError leaves save_file
             /\ result' = Raised([what |-> "open", at |-> 0])
             /\ pc' = "done"
             /\ Log("open_failed")
             /\ UNCHANGED <<files, appended>>
    /\ UNCHANGED <<op, calls, attempt, title, scrape, save_vars, dirs, fs_before, soup, out>>

\* faulty variant: an appended text is not terminated with a newline
WriteFile_NoNewline ==
    /\ InSave
    /\ pc = "write"
    /\ LET target_path == TargetPath(file_path) IN
       \/ /\ files' = [files EXCEPT ![target_path] =
                         File(@.data \o final_text)]
          /\ appended' = [appended EXCEPT ![target_path].texts =
                            IF appended[target_path].tracked
                            THEN Append(@, final_text) ELSE @]
          /\ result' = SuccessResult(target_path)
          /\ Log("write")
       \/ \* OSError while writing leaves save_file
          /\ result' = Raised([what |-> "write", at |-> 0])
          /\ Log("write_failed")
          /\ UNCHANGED <<files, appended>>
    /\ pc' = "done"
    /\ UNCHANGED <<op, calls, attempt, title, scrape, save_vars, dirs, fs_before, soup, out>>

\* save_file.py lines 170-173 (sync 94-97): write the text, terminate an
\* appended text with a newline, return success
WriteFile ==
    /\ InSave
    /\ pc = "write"
    /\ LET target_path == TargetPath(file_path) IN
       \/ /\ files' = [files EXCEPT ![target_path] =
                         File(@.data \o final_text
                              \o (IF append /\ ~EndsWith(final_text, <<NL>>)
                                  THEN <<NL>> ELSE <<>>))]
          /\ appended' = [appended EXCEPT ![target_path].texts =
                            IF appended[target_path].tracked
                            THEN Append(@, final_text) ELSE @]
          /\ result' = SuccessResult(target_path)
          /\ Log("write")
       \/ \* OSError while writing leaves save_file
          /\ result' = Raised([what |-> "write", at |-> 0])
          /\ Log("write_failed")
          /\ UNCHANGED <<files, appended>>
    /\ pc' = "done"
    /\ UNCHANGED <<op, calls, attempt, title, scrape, save_vars, dirs, fs_before, soup, out>>

(***************************************************************************)
(* The program.                                                            *)
(***************************************************************************)
\* contents a file can have before the first call
InitialContents == {NoFile, File(<<"c">>)}

Init ==
    /\ op = "idle"
    /\ pc = "idle"
    /\ calls = 0
    /\ attempt = 0
    /\ title = <<>>
    /\ scrape = Pending
    /\ events = <<>>
    /\ content = None
    /\ file_path = ""
    /\ append = FALSE
    /\ context_text = None
    /\ final_text = <<>>
    /\ request = NoRequest
    /\ result = Pending
    /\ dirs \in {{}, {"log"}}
    /\ files \in [Paths -> InitialContents]
    /\ \A p \in Paths : files[p] # NoFile => (Dirname(p) = "" \/ Dirname(p) \in dirs)
    /\ fs_before = <<dirs, files>>
    /\ appended = [p \in Paths |-> [tracked |-> files[p] = NoFile, texts |-> <<>>]]
    /\ soup = <<>>
    /\ out = NotRun

Next ==
    \/ CallWebscraping
    \/ GetPage
    \/ WaitForLoadState
    \/ ReadTitle
    \/ SleepChallenge
    \/ Extract
    \/ SleepBackoff
    \/ WebscrapingReturns
    \/ CallSaveFile
    \/ AfterScrape
    \/ Fallback
    \/ ScrapeSync
    \/ Complete
    \/ CompleteSync
    \/ Makedirs
    \/ OpenFile
    \/ WriteFile

Spec == Init /\ [][Next]_vars

\* the steps of one webscraping call; each collaborator call returns or fails
ScrapeStep ==
    \/ GetPage
    \/ WaitForLoadState
    \/ ReadTitle
    \/ SleepChallenge
    \/ Extract
    \/ SleepBackoff

\* the webscraping tool alone
ScrapeNext ==
    \/ CallWebscraping
    \/ GetPage
    \/ WaitForLoadState
    \/ ReadTitle
    \/ SleepChallenge
    \/ Extract
    \/ SleepBackoff
    \/ WebscrapingReturns

ScrapeSpec == Init /\ [][ScrapeNext]_vars /\ WF_vars(ScrapeStep)


(***************************************************************************)
(* The extraction helpers on their own: a markup tree is chosen, and a     *)
(* helper is applied to it.                                                *)
(***************************************************************************)
HelperInit ==
    /\ op = "idle"
    /\ pc = "idle"
    /\ calls = 0
    /\ attempt = 0
    /\ title = <<>>
    /\ scrape = Pending
    /\ events = <<>>
    /\ content = None
    /\ file_path = ""
    /\ append = FALSE
    /\ context_text = None
    /\ final_text = <<>>
    /\ request = NoRequest
    /\ result = Pending
    /\ dirs = {}
    /\ files = [p \in Paths |-> NoFile]
    /\ fs_before = <<dirs, files>>
    /\ appended = [p \in Paths |-> [tracked |-> TRUE, texts |-> <<>>]]
    /\ soup \in Soups \cup LinkSoups \cup MainSoups
    /\ out = NotRun

Run_get_formatted_content ==
    /\ out = NotRun
    /\ out' = [fn |-> "get_formatted_content", value |-> get_formatted_content(soup)]
    /\ UNCHANGED <<program_vars, soup>>

Run_get_internal_links ==
    /\ out = NotRun
    /\ out' = [fn |-> "get_internal_links", value |-> get_internal_links(soup, HelperUrl)]
    /\ UNCHANGED <<program_vars, soup>>

Run_get_main_content ==
    /\ out = NotRun
    /\ out' = [fn |-> "get_main_content", value |-> get_main_content(soup)]
    /\ UNCHANGED <<program_vars, soup>>

\* webscraping.py lines 26-41: the views are computed on the tree that the
\* removal of line 30 has changed in place
Run_extract_views ==
    /\ out = NotRun
    /\ LET tree == Decompose(soup) IN
       out' = [fn |-> "webscraping",
               value |-> << get_main_content(tree),
                            get_internal_links(tree, HelperUrl),
                            get_formatted_content(tree) >>]
    /\ UNCHANGED <<program_vars, soup>>

HelperNext ==
    \/ Run_get_formatted_content
    \/ Run_get_main_content
    \/ Run_extract_views
    \/ Run_get_internal_links

HelperSpec == HelperInit /\ [][HelperNext]_vars

(***************************************************************************)
(* Reading the log of a webscraping call.                                  *)
(***************************************************************************)
Failures == {"fail_load", "fail_title", "fail_extract"}
Sleeps == {"sleep5", "backoff"}

\* number of waits for network-idle among the first i events
LoadsUpTo(i) == Cardinality({j \in 1..i : events[j] = "load"})

Loads == LoadsUpTo(Len(events))

\* webscraping has ended and its outcome is with its caller or on its way
ScrapeEnded == pc \in {"scrape_end", "done"}

IsSnapshot(v) ==
    /\ v.kind = "dict"
    /\ DOMAIN v = {"kind", "url", "title", "main_content", "paragraphs", "headings",
                   "meta_data", "internal_links", "formatted_content"}

(***************************************************************************)
(* Claims about webscraping.                                               *)
(***************************************************************************)
\* C1: a call of webscraping ends either by returning a Snapshot record or by
\* raising an error to its caller; it never ends by returning no value.
C1_SnapshotOrError ==
    (InScrape /\ pc = "scrape_end") =>
        \/ scrape.kind = "raise"
        \/ scrape.kind = "return" /\ IsSnapshot(scrape.value)

\* C5: a timeout of the wait for network-idle, on whichever attempt, ends the
\* call at once with the degraded Snapshot (title "timeout waiting for page",
\* everything else empty): the timeout is the last thing the call did, so no
\* load wait and no sleep follows it.
C5_TimeoutReturnsDegraded ==
    \A i \in 1..Len(events) :
        events[i] = "timeout" =>
            /\ i = Len(events)
            /\ events[i - 1] = "load"
            /\ ScrapeEnded
            /\ scrape.kind = "return"
            /\ IsSnapshot(scrape.value)
            /\ scrape.value.title = TimeoutTitle
            /\ scrape.value.main_content = <<>>
            /\ scrape.value.formatted_content = <<>>
            /\ scrape.value.paragraphs = <<>>
            /\ scrape.value.headings = <<>>
            /\ scrape.value.meta_data = <<>>
            /\ scrape.value.internal_links = <<>>
            /\ (op = "webscraping" /\ pc = "done" => result = scrape)

\* a timeout on the second or third attempt, after a sleep
C5_Witness ==
    /\ Len(events) > 0
    /\ events[Len(events)] = "timeout"
    /\ \E i \in 1..Len(events) : events[i] \in Sleeps
    /\ pc = "done"

\* C6: a failure other than a load timeout on attempt 1 or 2 is followed by
\* exactly one backoff sleep and then the next load wait, and is not reported;
\* on attempt 3 the same failure is raised to the caller.
C6_RetryThenPropagate ==
    \A i \in 1..Len(events) :
        events[i] \in Failures =>
            IF LoadsUpTo(i) < max_retries
            THEN /\ i = Len(events) => (pc = "sleep_backoff" /\ scrape = Pending)
                 /\ i < Len(events) => events[i + 1] = "backoff"
                 /\ i + 1 = Len(events) =>
                        (pc = "wait_for_load_state" /\ scrape = Pending)
                 /\ i + 1 < Len(events) => events[i + 2] = "load"
                 /\ result = Pending \/ i + 1 < Len(events)
            ELSE /\ i = Len(events)
                 /\ ScrapeEnded
                 /\ scrape = Raised([what |-> events[i], at |-> max_retries])
                 /\ (op = "webscraping" /\ pc = "done" => result = scrape)

\* a failure on attempt 1 was retried and a failure on attempt 3 reached the caller
C6_Witness ==
    /\ op = "webscraping"
    /\ pc = "done"
    /\ result.kind = "raise"
    /\ Loads = max_retries
    /\ \E i \in 1..Len(events) : events[i] \in Failures /\ LoadsUpTo(i) = 1

\* C7: an attempt whose title contains "cloudflare" does not extract: the next
\* thing the call does is the 5 second sleep, and after a challenge on attempt
\* 1 or 2 the sleep is followed by a new load wait, so the call cannot end
\* before it has slept and waited for the page again.
C7_ChallengeSleepsAndReloads ==
    /\ (InScrape /\ pc = "extract") => ~Contains(Lower(title), Cloudflare)
    /\ (InScrape /\ pc = "sleep_challenge") => Contains(Lower(title), Cloudflare)
    /\ \A i \in 1..Len(events) :
           events[i] = "challenge" =>
               /\ i = Len(events) => (pc = "sleep_challenge" /\ scrape = Pending)
               /\ i < Len(events) => events[i + 1] = "sleep5"
               /\ LoadsUpTo(i) < max_retries =>
                    /\ i + 1 = Len(events) =>
                           (pc = "wait_for_load_state" /\ scrape = Pending)
                    /\ i + 1 < Len(events) => events[i + 2] = "load"
                    /\ ScrapeEnded => LoadsUpTo(i) < Loads

\* a challenge on attempt 1, then a clean attempt that returns a Snapshot
C7_Witness ==
    /\ op = "webscraping"
    /\ pc = "done"
    /\ \E i \in 1..Len(events) : events[i] = "challenge" /\ LoadsUpTo(i) = 1
    /\ result.kind = "return"
    /\ result.value.kind = "dict"
    /\ result.value.title = TitleHome

\* the call is running: it has started and not yet ended
ScrapeRunning ==
    /\ op = "webscraping"
    /\ pc \in {"get_page", "wait_for_load_state", "title", "sleep_challenge",
               "extract", "sleep_backoff"}

\* every load wait but the first comes right after a sleep, and every sleep
\* right after the challenge or failure that ended the attempt before
Sequential ==
    \A i \in 1..Len(events) :
        /\ events[i] = "load" =>
              \/ i = 2 /\ events[1] = "get_page"
              \/ i > 2 /\ events[i - 1] \in Sleeps
        /\ events[i] = "sleep5" => (i > 1 /\ events[i - 1] = "challenge")
        /\ events[i] = "backoff" => (i > 1 /\ events[i - 1] \in Failures)

\* C8: a call of webscraping terminates, waits for network-idle at most 3
\* times whatever mix of challenges and failures occurs, and runs its attempts
\* one after the other.
C8_TerminatesWithinThreeLoads ==
    /\ [](Loads <= 3 /\ Sequential)
    /\ (ScrapeRunning ~> (op = "webscraping" /\ ScrapeEnded))

\* three load waits: a challenge, a failure, then a clean load
C8_Witness ==
    /\ op = "webscraping"
    /\ pc = "done"
    /\ Loads = max_retries
    /\ \E i, j \in 1..Len(events) : events[i] = "sleep5" /\ events[j] = "backoff"
    /\ result.kind = "return"

(***************************************************************************)
(* Claims about save_file.                                                 *)
(***************************************************************************)
Last(s) == s[Len(s)]

\* the call has ended and handed the caller a result record of this status
ResultStatus(status) ==
    /\ InSave
    /\ pc = "done"
    /\ result.kind = "return"
    /\ result.value.status = status

FsUnchanged == <<dirs, files>> = fs_before

\* the backend call of the save_file call in progress raised
BackendRaised ==
    /\ InSave
    /\ events # <<>>
    /\ Last(events) = "complete_failed"

\* C2: when the backend completion call raises, save_file (either variant,
\* append or not) returns status "error" with the cause, and the filesystem
\* is as it was before the call.
C2_BackendFailureWritesNothing ==
    BackendRaised =>
        /\ ResultStatus("error")
        /\ result.value.file_path = TargetPath(file_path)
        /\ result.value.message = <<"formatting_failed: ", BackendError>>
        /\ FsUnchanged

\* the sync variant, appending to a file that exists, with a failing backend
C2_Witness ==
    /\ BackendRaised
    /\ op = "save_file_sync"
    /\ append
    /\ files[TargetPath(file_path)] # NoFile
    /\ pc = "done"

\* the backend answered, and its text begins with "formatting failed"
SoftFailure ==
    /\ InSave
    /\ \E i \in 1..Len(events) : events[i] = "complete"
    /\ StartsWith(Lower(final_text), FormattingFailed)

\* C3: when the backend answers with a text that begins, case-insensitively,
\* with "formatting failed", save_file (either variant) returns status "error"
\* and the filesystem is as it was before the call.
C3_SoftFailureWritesNothing ==
    SoftFailure => (ResultStatus("error") /\ FsUnchanged)

\* C4: every call of save_file ends by returning a result record with status
\* "success" or "error"; no exception leaves save_file.
C4_NoExceptionEscapes ==
    (op = "save_file" /\ pc = "done") =>
        /\ result.kind = "return"
        /\ result.value.status \in {"success", "error"}

\* the text with the newline an append adds when the text does not end in one
Terminated(text) == IF EndsWith(text, <<NL>>) THEN text ELSE text \o <<NL>>

RECURSIVE ConcatTerminated(_)
ConcatTerminated(texts) ==
    IF texts = <<>> THEN <<>>
    ELSE Terminated(Head(texts)) \o ConcatTerminated(Tail(texts))

\* what the target file held when the call started ("" when it was absent)
DataBefore ==
    LET before == fs_before[2][TargetPath(file_path)] IN
    IF before = NoFile THEN <<>> ELSE before.data

\* C9: after a successful save with append=false the file holds exactly the
\* final text; after a successful save with append=true it holds what it held
\* before, then the final text, then a newline unless the text ends in one, so
\* it ends in a newline; appending "a" and then "b" to a new file leaves
\* "a\nb\n".
C9_FileContents ==
    /\ (InSave /\ ResultStatus("success")) =>
          LET data == files[TargetPath(file_path)].data IN
          IF append
          THEN /\ data = DataBefore \o Terminated(final_text)
               /\ EndsWith(data, <<NL>>)
          ELSE data = final_text
    /\ \A p \in Paths :
          (appended[p].tracked /\ files[p] # NoFile) =>
              /\ files[p].data = ConcatTerminated(appended[p].texts)
              /\ appended[p].texts = << <<"a">>, <<"b">> >> =>
                    files[p].data = <<"a", NL, "b", NL>>

\* "a" and then "b" were appended to a file that did not exist
C9_Witness ==
    /\ ResultStatus("success")
    /\ append
    /\ appended[TargetPath(file_path)].tracked
    /\ appended[TargetPath(file_path)].texts = << <<"a">>, <<"b">> >>

(***************************************************************************)
(* Claims about the extraction helpers.                                    *)
(***************************************************************************)
RECURSIVE SplitLines(_)
\* str.splitlines() for texts whose only line break is "\n"
SplitLines(s) ==
    IF s = <<>> THEN <<>>
    ELSE IF \E i \in 1..Len(s) : s[i] = NL
    THEN LET k == CHOOSE i \in 1..Len(s) : s[i] = NL /\ \A j \in 1..(i - 1) : s[j] # NL
         IN <<SubSeq(s, 1, k - 1)>> \o SplitLines(SubSeq(s, k + 1, Len(s)))
    ELSE <<s>>

NoDuplicateLines(s) ==
    LET lines == SplitLines(s) IN
    \A i, j \in 1..Len(lines) : i # j => Lower(lines[i]) # Lower(lines[j])

\* C10: for every markup tree, no two lines of the formatted_content that
\* get_formatted_content returns are equal when compared case-insensitively.
C10_NoDuplicateLines ==
    out.fn = "get_formatted_content" => NoDuplicateLines(out.value)

\* C11: every URL that get_internal_links returns has the scheme and the host
\* of the page URL, also for hrefs that start with "//" and for hrefs that
\* merely begin with the page's origin string.
C11_LinksAreInternal ==
    out.fn = "get_internal_links" =>
        \A k \in 1..Len(out.value) :
            /\ UrlScheme(out.value[k]) = UrlScheme(HelperUrl)
            /\ UrlHostname(out.value[k]) = UrlHostname(HelperUrl)

\* C12: within one extraction attempt main_content is what get_main_content
\* gives on the tree as it is before aside, header, nav and footer are
\* removed; the removal shows only in the other views.
C12_MainContentBeforeRemoval ==
    out.fn = "webscraping" =>
        /\ out.value[1] = get_main_content(soup)
        /\ out.value[3] = get_formatted_content(Decompose(soup))

\* the candidate regions in the order id "main", id "content", class
\* "main-content", class "main", role "main", <main>, <article>
CandidateRegions(tree) ==
    [k \in 1..7 |-> IF k <= Len(selectors) THEN FindSelector(tree, selectors[k])
                    ELSE IF k = 6 THEN FindTag(tree, "main")
                    ELSE FindTag(tree, "article")]

\* the candidates whose stripped text is longer than 20 characters
Substantial(tree) ==
    {k \in 1..7 : /\ CandidateRegions(tree)[k] # 0
                  /\ Len(GetTextStrip(tree, CandidateRegions(tree)[k])) > 20}

\* C13: get_main_content returns the text of the first candidate region with
\* more than 20 characters whenever there is one (an <article> too when a
\* short <main> exists); otherwise the first main/article/section with more
\* than 100 characters cut to 2000, otherwise the empty string.
C13_FirstSubstantialCandidate ==
    out.fn = "get_main_content" =>
        IF Substantial(soup) # {}
        THEN LET k == CHOOSE k \in Substantial(soup) : \A m \in Substantial(soup) : k <= m
             IN out.value = GetTextStrip(soup, CandidateRegions(soup)[k])
        ELSE out.value = FallbackBlock(soup, 1)

\* the elements below element i, at any depth
Descendants(tree, i) == {j \in 1..Len(tree) : i \in Ancestors(tree, j)}

\* a block none of whose descendants is a block
IsDeepLeafBlock(tree, i) ==
    /\ IsLeafBlock(tree, i)
    /\ \A d \in Descendants(tree, i) : tree[d].tag \notin tag_names

RECURSIVE DeepFormatFrom(_, _, _, _)
\* the output when only the blocks without block descendants are emitted
DeepFormatFrom(tree, i, unique_text, formatted_article) ==
    IF i > Len(tree) THEN formatted_article
    ELSE LET text == Strip(GetText(tree, i))
             lower_text == Lower(text)
         IN IF IsDeepLeafBlock(tree, i) /\ text # <<>> /\ lower_text \notin unique_text
            THEN DeepFormatFrom(tree, i + 1, unique_text \cup {lower_text},
                                formatted_article \o text \o <<" ", NL>>)
            ELSE DeepFormatFrom(tree, i + 1, unique_text, formatted_article)

\* C17: get_formatted_content emits an element of the block tag set only if
\* no descendant at any depth is in that set, so the text of a block that
\* wraps nested blocks (ul > li > p) is not emitted besides theirs.
C17_NoBlockDescendants ==
    out.fn = "get_formatted_content" => out.value = DeepFormatFrom(soup, 1, {}, <<>>)

(***************************************************************************)
(* Further claims about save_file.                                         *)
(***************************************************************************)
\* the elements of the sequence s
Range(s) == {s[k] : k \in 1..Len(s)}

\* a Snapshot without main content, formatted content and paragraphs
Insufficient(v) ==
    /\ IsSnapshot(v)
    /\ v.main_content = <<>>
    /\ v.formatted_content = <<>>
    /\ v.paragraphs = <<>>

\* C14: when save_file is called without content and the scrape gives a
\* Snapshot with insufficient text (such as the degraded timeout Snapshot),
\* the fallback re-query of the live markup runs before the backend call.
C14_InsufficientTriggersFallback ==
    ( /\ op = "save_file"
      /\ content = None
      /\ scrape.kind = "return"
      /\ Insufficient(scrape.value)
      /\ pc = "complete" )
    => "fallback" \in Range(events)

\* the guidance asks for CSV with a header row and without newlines in cells
CsvGuidance(system) == {"header row", "no newlines in cells"} \subseteq system

\* the guidance asks for a prose rewrite
ProseGuidance(system) == "clean, concise write-up" \in system

\* C15: the system guidance of the backend request depends only on the
\* extension of the target path: for ".csv" it asks for a header row and
\* forbids newlines in cells, whatever the context and in both variants; for
\* any other extension it is the prose-rewrite guidance.
C15_GuidanceByExtension ==
    (InSave /\ request # NoRequest) =>
        IF Extension(TargetPath(file_path)) = ".csv"
        THEN CsvGuidance(request.system) /\ ~ProseGuidance(request.system)
        ELSE ProseGuidance(request.system) /\ ~CsvGuidance(request.system)

\* a CSV request of the async variant without any page content
C15_Witness ==
    /\ op = "save_file"
    /\ request # NoRequest
    /\ Extension(TargetPath(file_path)) = ".csv"
    /\ request.user = NoPageContent
    /\ CsvGuidance(request.system)

BackendEvents == {"complete", "complete_failed"}

IoEvents == {"makedirs", "makedirs_failed", "open", "open_failed", "write", "write_failed"}

\* the positions in the log of the call at which a step of the set S was taken
Positions(S) == {k \in 1..Len(events) : events[k] \in S}

\* C16: a save_file call is one ordered flow: the optional scrape and the
\* optional fallback re-query, then at most one backend call, then at most
\* one file write; directory creation, open and write (and so every I/O
\* failure and every change of the file system) come only after the backend
\* call has returned.
C16_SingleOrderedFlow ==
    InSave =>
        /\ Cardinality(Positions(BackendEvents)) <= 1
        /\ Cardinality(Positions({"write", "write_failed"})) <= 1
        /\ \A k \in Positions(IoEvents) : \E j \in 1..(k - 1) : events[j] = "complete"
        /\ \A k \in Positions(BackendEvents) :
               \A j \in 1..(k - 1) : events[j] \in {"scrape", "fallback", "fallback_failed"}
        /\ \A k \in Positions({"fallback", "fallback_failed"}) :
               k > 1 /\ events[k - 1] = "scrape"
        /\ pc \in {"makedirs", "open", "write"} => "complete" \in Range(events)
        /\ <<dirs, files>> # fs_before => "complete" \in Range(events)
        /\ (result.kind = "raise" /\ result.error.what \in {"makedirs", "open", "write"})
               => "complete" \in Range(events)

\* a call that went through every stage and failed in the write
C16_Witness ==
    /\ op = "save_file"
    /\ pc = "done"
    /\ events = <<"scrape", "fallback", "complete", "makedirs", "open", "write_failed">>
    /\ result.kind = "raise"

\* the elements that selector k of the fallback selects and whose text is
\* longer than 50 characters
Yields(tree, k) ==
    {i \in 1..Len(tree) : /\ Selects(selectors_to_try[k], tree[i])
                          /\ Len(GetTextStrip(tree, i)) > 50}

\* the selectors of the fallback that yield a text on the tree
Yielding(tree) == {k \in 1..Len(selectors_to_try) : Yields(tree, k) # {}}

\* the least element of a non-empty set of numbers
Min(S) == CHOOSE n \in S : \A m \in S : n <= m

\* the fallback re-query has just run
AfterFallback ==
    /\ op = "save_file"
    /\ pc = "complete"
    /\ events # <<>>
    /\ Last(events) \in {"fallback", "fallback_failed"}

\* C18: when the fallback re-query fails or recovers no text of more than 50
\* characters, the context is exactly the rendering of the original scrape
\* and save_file goes on to the backend call; when it recovers text, the
\* context is one text of at most 2000 characters, from the first selector in
\* priority order that yields one.
C18_FallbackContext ==
    AfterFallback =>
        /\ result = Pending
        /\ IF Last(events) = "fallback_failed" \/ Yielding(soup) = {}
           THEN context_text = Str(Format_scrape_result(scrape.value))
           ELSE LET k == Min(Yielding(soup))
                    text == GetTextStrip(soup, Min(Yields(soup, k)))
                IN /\ context_text = Str(Truncate(text, 2000))
                   /\ Len(context_text.s) <= 2000

\* the text of a <main> that comes after an <article> in the document has
\* replaced the context
C18_Witness ==
    /\ AfterFallback
    /\ Last(events) = "fallback"
    /\ Len(soup) = 3
    /\ soup[2].tag = "article"
    /\ soup[3].tag = "main"
    /\ Len(soup[2].text) > 50
    /\ context_text = Str(soup[3].text)

\* the steps of a call that come after the context has been built
LateEvents == BackendEvents \cup IoEvents

\* C19: when save_file is called with content other than None, the empty
\* string included, it never calls webscraping, never runs the fallback
\* re-query and never touches the page; the context sent to the backend
\* comes from the content alone.
C19_ContentGivenNoScrape ==
    (InSave /\ content # None) =>
        /\ Range(events) \subseteq LateEvents
        /\ scrape = Pending
        /\ attempt = 0
        /\ soup = <<>>
        /\ context_text = content
        /\ request # NoRequest =>
               request.user =
                   IF op = "save_file"
                   THEN IF content.s # <<>>
                        THEN Str(Truncate(content.s, max_context_chars))
                        ELSE NoPageContent
                   ELSE Str(Truncate(content.s, max_context_chars_sync))

\* a call with the empty string as content has reached the backend
C19_Witness ==
    /\ op = "save_file"
    /\ content = Str(<<>>)
    /\ request # NoRequest
    /\ request.user = NoPageContent
    /\ Last(events) = "complete"

\* C20: a Snapshot returned by the extraction path never has a title that
\* contains "cloudflare" in any case, also when the page changes between the
\* reads of one attempt: the stored title is the one the challenge check saw.
C20_SnapshotTitlePassedCheck ==
    (InScrape /\ pc = "scrape_end" /\ events # <<>> /\ Last(events) = "extract") =>
        /\ ~Contains(Lower(scrape.value.title), Cloudflare)
        /\ scrape.value.title = title

\* C21: webscraping never sleeps without starting another load attempt
\* afterwards: every sleep, after a transient failure or after a challenge
\* title, belongs to the first or the second attempt, and the next step of
\* the call is the wait for the load of the next attempt.
C21_NoSleepWithoutLoad ==
    InScrape =>
        \A i \in 1..Len(events) :
            events[i] \in Sleeps =>
                /\ LoadsUpTo(i) < max_retries
                /\ i < Len(events) => events[i + 1] = "load"
                /\ i = Len(events) => pc = "wait_for_load_state"

====
